---- MODULE Spec2Model ----
(***************************************************************************)
(* Model of diskimgcreator (src/src/diskimgcreator.py): the size parser    *)
(* _parse_size, the two filename grammars, the partition table builder     *)
(* PartitionCollection.from_directory and the total-size resolver          *)
(* PartitionCollection.get_total_size.                                     *)
(*                                                                         *)
(* File names and size tokens are TLA+ strings; a character is a string of *)
(* length one.  The alphabet is ASCII without the newline, so Python's     *)
(* `.` matches every character and `$` only matches at the very end.       *)
(***************************************************************************)
EXTENDS Integers, Sequences, FiniteSets, TLC

VARIABLES
    size,        \* _parse_size: the argument `size`
    size_ret,    \* _parse_size: what the call did (a value or a raised exception)
    listing,     \* the names in the partitions directory (rootdir)
    pc,          \* try_create_image: the statement reached
    partitions,  \* try_create_image: PartitionCollection._partitions
    total_size,  \* try_create_image: total_size
    exc,         \* try_create_image: the exception that ended it
    call,        \* the function called and its arguments; whether the image file exists
    image,       \* the image file: "unchanged" or "written"
    devices,     \* the number of partition devices the device mount exposes
    index,       \* the position of the `for` loop
    stack,       \* the context managers entered and not yet exited
    log          \* the external commands run and the mounts entered and exited

vars == <<size, size_ret, listing, pc, partitions, total_size, exc,
          call, image, devices, index, stack, log>>

\* the state outside the parser: the image file, the mounts, the commands
tools == <<call, image, devices, index, stack, log>>

-----------------------------------------------------------------------------
(* Strings                                                                 *)

\* s[i-1:i], the empty string beyond the end of s
Ch(s, i) == IF 1 <= i /\ i <= Len(s) THEN SubSeq(s, i, i) ELSE ""

From(s, i) == SubSeq(s, i, Len(s))

\* s[i-1 : i-1+len(w)] == w
At(s, i, w) == i >= 1 /\ i + Len(w) - 1 <= Len(s) /\ SubSeq(s, i, i + Len(w) - 1) = w

EndsWith(s, w) == Len(w) <= Len(s) /\ From(s, Len(s) - Len(w) + 1) = w

Digits == {"0", "1", "2", "3", "4", "5", "6", "7", "8", "9"}

UpperCase == "ABCDEFGHIJKLMNOPQRSTUVWXYZ"

LowerCase == "abcdefghijklmnopqrstuvwxyz"

\* The characters of the model in code point order (sorted() compares code points).
CodePoints == " $%-./0123456789" \o UpperCase \o "_" \o LowerCase

Ord(c) == CHOOSE i \in 1..Len(CodePoints) : Ch(CodePoints, i) = c

\* str.lower() of one character
LowerCh(c) ==
    IF \E i \in 1..Len(UpperCase) : Ch(UpperCase, i) = c
    THEN Ch(LowerCase, CHOOSE i \in 1..Len(UpperCase) : Ch(UpperCase, i) = c)
    ELSE c

RECURSIVE Lower(_)
Lower(s) == IF s = "" THEN "" ELSE LowerCh(Ch(s, 1)) \o Lower(From(s, 2))

\* Python's s < t on str
RECURSIVE StrLess(_, _)
StrLess(s, t) ==
    IF t = "" THEN FALSE
    ELSE IF s = "" THEN TRUE
    ELSE IF Ch(s, 1) = Ch(t, 1) THEN StrLess(From(s, 2), From(t, 2))
    ELSE Ord(Ch(s, 1)) < Ord(Ch(t, 1))

\* sorted(S) for a set of strings
RECURSIVE Sorted(_)
Sorted(S) ==
    IF S = {} THEN <<>>
    ELSE LET least == CHOOSE x \in S : \A y \in S \ {x} : StrLess(x, y)
         IN  <<least>> \o Sorted(S \ {least})

-----------------------------------------------------------------------------
(* Python int: unbounded naturals, kept as little-endian sequences of      *)
(* 15-bit limbs without leading zero limbs (zero is the empty sequence).   *)

Limb == 2^15

RECURSIVE Norm(_)
Norm(a) ==
    IF a = <<>> THEN <<>>
    ELSE IF a[Len(a)] = 0 THEN Norm(SubSeq(a, 1, Len(a) - 1))
    ELSE a

\* the limbs of n < 2^31
RECURSIVE Big(_)
Big(n) == IF n = 0 THEN <<>> ELSE <<n % Limb>> \o Big(n \div Limb)

\* a * c + carry, for c, carry < 2^15
RECURSIVE MulSmallAdd(_, _, _)
MulSmallAdd(a, c, carry) ==
    IF a = <<>> THEN Big(carry)
    ELSE LET t == a[1] * c + carry
         IN  <<t % Limb>> \o MulSmallAdd(Tail(a), c, t \div Limb)

RECURSIVE AddCarry(_, _, _)
AddCarry(a, b, carry) ==
    IF a = <<>> /\ b = <<>> THEN Big(carry)
    ELSE LET x == IF a = <<>> THEN 0 ELSE a[1]
             y == IF b = <<>> THEN 0 ELSE b[1]
             t == x + y + carry
         IN  <<t % Limb>>
             \o AddCarry(IF a = <<>> THEN a ELSE Tail(a),
                         IF b = <<>> THEN b ELSE Tail(b), t \div Limb)

Add(a, b) == Norm(AddCarry(a, b, 0))

RECURSIVE Mul(_, _)
Mul(a, b) ==
    IF b = <<>> \/ a = <<>> THEN <<>>
    ELSE Add(Norm(MulSmallAdd(a, b[1], 0)), Norm(<<0>> \o Mul(a, Tail(b))))

\* a // c for 0 < c < 2^15, by long division from the top limb
RECURSIVE DivSmallFrom(_, _, _, _)
DivSmallFrom(a, c, i, rem) ==
    IF i = 0 THEN <<>>
    ELSE LET cur == rem * Limb + a[i]
         IN  DivSmallFrom(a, c, i - 1, cur % c) \o <<cur \div c>>

DivSmall(a, c) == Norm(DivSmallFrom(a, c, Len(a), 0))

RECURSIVE Zeros(_)
Zeros(n) == IF n = 0 THEN <<>> ELSE <<0>> \o Zeros(n - 1)

\* a << s
ShiftLeft(a, s) ==
    IF a = <<>> THEN <<>>
    ELSE Norm(Zeros(s \div 15) \o MulSmallAdd(a, 2^(s % 15), 0))

\* a >> s
ShiftRight(a, s) ==
    IF Len(a) <= s \div 15 THEN <<>>
    ELSE DivSmall(SubSeq(a, s \div 15 + 1, Len(a)), 2^(s % 15))

RECURSIVE BitLenSmall(_)
BitLenSmall(n) == IF n = 0 THEN 0 ELSE 1 + BitLenSmall(n \div 2)

\* int.bit_length()
BitLen(a) == IF a = <<>> THEN 0 ELSE 15 * (Len(a) - 1) + BitLenSmall(a[Len(a)])

\* bit i of a, bit 0 the lowest
Bit(a, i) ==
    IF Len(a) <= i \div 15 THEN 0 ELSE (a[i \div 15 + 1] \div 2^(i % 15)) % 2

RECURSIVE DivTen(_, _)
\* a // 10^k
DivTen(a, k) == IF k = 0 THEN a ELSE DivTen(DivSmall(a, 10), k - 1)

RECURSIVE MulTen(_, _)
\* a * 10^k
MulTen(a, k) == IF k = 0 THEN a ELSE MulTen(Norm(MulSmallAdd(a, 10, 0)), k - 1)

-----------------------------------------------------------------------------
(* Python float: an IEEE 754 double, kept as [m, e] for the value m * 2^e  *)
(* with m < 2^53 + 1.  The tokens of the model stay far from the subnormal *)
(* and overflow ranges.                                                    *)

\* a * 2^0 rounded to 53 significant bits, ties to even; `inexact` tells that
\* the exact value lies strictly between a and a + 1.
Round53(a, inexact) ==
    IF BitLen(a) <= 53 THEN [m |-> a, e |-> 0]
    ELSE LET sh    == BitLen(a) - 53
             q     == ShiftRight(a, sh)
             half  == Bit(a, sh - 1) = 1
             below == inexact \/ ShiftLeft(ShiftRight(a, sh - 1), sh - 1) # a
             up    == half /\ (below \/ Bit(q, 0) = 1)
         IN  [m |-> IF up THEN Add(q, <<1>>) ELSE q, e |-> sh]

\* float(text) for a text of digits with at most one dot: the double nearest to
\* n / 10^k, where n is the number the digits spell and k the digits after the dot
FloatOfDecimal(n, k) ==
    IF n = <<>> THEN [m |-> <<>>, e |-> 0]
    ELSE LET s == 55 + 4 * k
             a == ShiftLeft(n, s)
             q == DivTen(a, k)
             r == Round53(q, MulTen(q, k) # a)
         IN  [m |-> r.m, e |-> r.e - s]

\* x * c for a float x and an int c < 2^53 (c converts exactly)
FloatMul(x, c) ==
    LET r == Round53(Mul(x.m, c), FALSE)
    IN  [m |-> r.m, e |-> x.e + r.e]

\* int(x): truncation toward zero
IntOfFloat(x) == IF x.e >= 0 THEN ShiftLeft(x.m, x.e) ELSE ShiftRight(x.m, 0 - x.e)

-----------------------------------------------------------------------------
(* _parse_size                                                             *)

RECURSIVE BigPow(_, _)
\* base ** n
BigPow(base, n) == IF n = 0 THEN <<1>> ELSE Mul(BigPow(base, n - 1), Big(base))

\* the dict `units`
units ==
    [u \in {"", "s", "b", "kb", "mb", "gb", "tb", "kib", "mib", "gib", "tib"} |->
        CASE u = ""    -> BigPow(1000, 2)
          [] u = "s"   -> Big(512)
          [] u = "b"   -> Big(1)
          [] u = "kb"  -> Big(1000)
          [] u = "mb"  -> BigPow(1000, 2)
          [] u = "gb"  -> BigPow(1000, 3)
          [] u = "tb"  -> BigPow(1000, 4)
          [] u = "kib" -> Big(1024)
          [] u = "mib" -> BigPow(1024, 2)
          [] u = "gib" -> BigPow(1024, 3)
          [] u = "tib" -> BigPow(1024, 4)]

\* what a call does: it returns `value`, or raises the exception named `raised`
\* (with its `filename` field, when it has one)
Return(v) == [raised |-> "", filename |-> "", value |-> v]

Raise(type, fname) == [raised |-> type, filename |-> fname, value |-> <<>>]

RECURSIVE NumRun(_)
\* the length of the greedy match of [\d\.]+ at the start of s (0: no match)
NumRun(s) ==
    IF s # "" /\ Ch(s, 1) \in Digits \cup {"."} THEN 1 + NumRun(From(s, 2)) ELSE 0

RECURSIVE DotCount(_)
DotCount(s) ==
    IF s = "" THEN 0 ELSE (IF Ch(s, 1) = "." THEN 1 ELSE 0) + DotCount(From(s, 2))

RECURSIVE DigitsValue(_, _)
\* the number the digits of s spell, dots skipped, after the digits already in acc
DigitsValue(s, acc) ==
    IF s = "" THEN acc
    ELSE IF Ch(s, 1) = "." THEN DigitsValue(From(s, 2), acc)
    ELSE DigitsValue(From(s, 2), Norm(MulSmallAdd(acc, 10, Ord(Ch(s, 1)) - Ord("0"))))

RECURSIVE FractionDigits(_)
\* the number of digits after the dot of s
FractionDigits(s) ==
    IF s = "" THEN 0
    ELSE IF Ch(s, 1) = "." THEN Len(s) - 1
    ELSE FractionDigits(From(s, 2))

\* float(text) of a run of digits and dots raises ValueError unless the run holds
\* at most one dot and at least one digit
FloatAccepts(text) == DotCount(text) <= 1 /\ Len(text) > DotCount(text)

ParseSizeValue(num, unit) == IntOfFloat(FloatMul(num, units[unit]))

_parse_size(s) ==
    LET run  == NumRun(s)
        text == SubSeq(s, 1, run)
        unit == Lower(From(s, run + 1))
    IN  IF run = 0 THEN Raise("PartitionSizeParseException", "")
        ELSE IF ~FloatAccepts(text) THEN Raise("ValueError", "")
        ELSE IF unit \in DOMAIN units
        THEN Return(ParseSizeValue(
                 FloatOfDecimal(DigitsValue(text, <<>>), FractionDigits(text)), unit))
        ELSE Raise("PartitionSizeParseException", "")

-----------------------------------------------------------------------------
(* The filename grammars.  re.match anchors a pattern at the start of the  *)
(* name; a greedy quantifier takes the longest text for which the rest of  *)
(* the pattern still matches, the leftmost quantifier deciding first.  A   *)
(* way to match is a tuple of positions, one per quantifier from left to   *)
(* right, and the match re.match returns is the greatest of them in        *)
(* lexicographic order.                                                    *)

RECURSIVE LexLeq(_, _)
\* m <= n in lexicographic order, for tuples of the same length
LexLeq(m, n) ==
    \/ m = <<>>
    \/ Head(m) < Head(n)
    \/ Head(m) = Head(n) /\ LexLeq(Tail(m), Tail(n))

\* the greediest way to match, <<>> when there is no way
Greediest(ms) ==
    IF ms = {} THEN <<>> ELSE CHOOSE m \in ms : \A n \in ms : LexLeq(n, m)

\* re.match returns None
None == [matched |-> FALSE]

\* no character of s[a-1:b] is in `chars`
NoneIn(s, a, b, chars) == \A i \in a..b : Ch(s, i) \notin chars

\* the ways `partition(\d\d?)` matches: <<p, d>>, d digits from p + 9
PartitionAt(s) ==
    {pd \in (1..Len(s)) \X {1, 2} :
        /\ At(s, pd[1], "partition")
        /\ \A i \in 1..pd[2] : Ch(s, pd[1] + 8 + i) \in Digits}

\* `(\.tar|\.tar\.gz)?$`
SuffixAndEnd(rest) == rest \in {"", ".tar", ".tar.gz"}

\* long_format = r".*partition(\d\d?).*-- parted (?P<parted>.*)(\.tar|\.tar\.gz)?$"
\* a way to match is <<p, d, q, e>>: partition at p with d digits, "-- parted " at q,
\* the group parted ending at e
long_format(s) ==
    LET groups(m) == IF m = <<>> THEN None
                     ELSE [matched |-> TRUE, parted |-> SubSeq(s, m[3] + 10, m[4])]
    IN  groups(Greediest(UNION {
                 UNION {{<<pd[1], pd[2], q, e>> :
                           e \in {e \in (q + 9)..Len(s) : SuffixAndEnd(From(s, e + 1))}} :
                        q \in {q \in (pd[1] + 9 + pd[2])..Len(s) : At(s, q, "-- parted ")}} :
                 pd \in PartitionAt(s)}))

\* long_format_fstype =
\*   r".* (?P<fstype>[^ ]+) (?P<partition_start>[^ ]+) (?P<partition_end>[^ ]+)$"
\* a way to match is <<a, b, c>>: the spaces before fstype, partition_start and
\* partition_end
long_format_fstype(s) ==
    LET groups(m) == IF m = <<>> THEN None ELSE [matched |-> TRUE,
                      fstype |-> SubSeq(s, m[1] + 1, m[2] - 1),
                      partition_start |-> SubSeq(s, m[2] + 1, m[3] - 1),
                      partition_end |-> From(s, m[3] + 1)]
        spaces(from) == {i \in from..Len(s) : Ch(s, i) = " "}
    IN  groups(Greediest(UNION {
                 UNION {{<<a, b, c>> :
                           c \in {c \in spaces(b + 2) :
                                    /\ NoneIn(s, b + 1, c - 1, {" "})
                                    /\ c < Len(s)
                                    /\ NoneIn(s, c + 1, Len(s), {" "})}} :
                        b \in {b \in spaces(a + 2) : NoneIn(s, a + 1, b - 1, {" "})}} :
                 a \in spaces(1)}))

\* short_format = r".*partition(\d\d?)[_ ](?P<msdos>msdos[_ ])?(?P<partition_end>[^_ ]+)
\*                  [_ ](?P<fstype>[^_\. ]+)(\.tar|\.tar\.gz)?$"
\* a way to match is <<p, d, k, b, c>>: partition at p with d digits, k = 1 when the
\* group msdos takes part, partition_end ending before the separator at b, fstype
\* ending at c
short_format(s) ==
    LET sep == {"_", " "}
        from(p, d, k) == p + 10 + d + 6 * k
        ends(a) == {b \in (a + 1)..Len(s) : NoneIn(s, a, b - 1, sep) /\ Ch(s, b) \in sep}
        fss(b) == {c \in (b + 1)..Len(s) :
                     NoneIn(s, b + 1, c, {"_", ".", " "}) /\ SuffixAndEnd(From(s, c + 1))}
        groups(m) == IF m = <<>> THEN None ELSE [matched |-> TRUE,
                      msdos |-> m[3] = 1,
                      partition_end |-> SubSeq(s, from(m[1], m[2], m[3]), m[4] - 1),
                      fstype |-> SubSeq(s, m[4] + 1, m[5])]
    IN  groups(Greediest(UNION {
                 UNION {
                   UNION {{<<pd[1], pd[2], k, b, c>> : c \in fss(b)} :
                          b \in ends(from(pd[1], pd[2], k))} :
                   k \in {k \in {0, 1} :
                            k = 1 => /\ At(s, pd[1] + 10 + pd[2], "msdos")
                                     /\ Ch(s, pd[1] + 15 + pd[2]) \in sep}} :
                 pd \in {pd \in PartitionAt(s) : Ch(s, pd[1] + 9 + pd[2]) \in sep}}))

\* get_total_size: long_format = r".* -- dd (?P<size_all>[^ $]+)"
\* a way to match is <<q, e>>: " -- dd " at q, the group size_all ending at e
size_long_format(s) ==
    LET groups(m) == IF m = <<>> THEN None
                     ELSE [matched |-> TRUE, size_all |-> SubSeq(s, m[1] + 7, m[2])]
    IN  groups(Greediest(UNION {{<<q, e>> :
                         e \in {e \in (q + 7)..Len(s) : NoneIn(s, q + 7, e, {" ", "$"})}} :
                      q \in {q \in 1..Len(s) : At(s, q, " -- dd ")}}))

\* get_total_size: short_format = r".*partition(\d\d?)[_ ](?P<partition_end>[^_ ]+)"
\* a way to match is <<p, d, e>>: partition at p with d digits, the group
\* partition_end ending at e
size_short_format(s) ==
    LET groups(m) == IF m = <<>> THEN None ELSE [matched |-> TRUE,
                      partition_end |-> SubSeq(s, m[1] + 10 + m[2], m[3])]
    IN  groups(Greediest(UNION {{<<pd[1], pd[2], e>> :
                         e \in {e \in (pd[1] + 10 + pd[2])..Len(s) :
                                  NoneIn(s, pd[1] + 10 + pd[2], e, {"_", " "})}} :
                      pd \in {pd \in PartitionAt(s) : Ch(s, pd[1] + 9 + pd[2]) \in {"_", " "}}}))

-----------------------------------------------------------------------------
(* The partition table builder                                             *)

\* class Partition
Partition(filename, parted, fstype) ==
    [filename |-> filename, parted |-> parted, fstype |-> fstype]

\* mutant: the exception names the last file of the list
ParseErrorLastFile(files, i) == Raise("PartitionParseException", files[Len(files)])

\* raise PartitionParseException(fname), fname = files[i] (0-based, as in Python)
ParseError(files, i) == Raise("PartitionParseException", files[i + 1])

RECURSIVE LongLoop(_, _, _)
\* the loop of _try_get_partitions_long_format from `for fname in files` on, about
\* to handle files[i] with `partitions` = acc
LongLoop(files, i, acc) ==
    LET fname == files[i + 1]
        add(m, f) ==
            IF ~f.matched THEN ParseError(files, i)
            ELSE LongLoop(files, i + 1, Append(acc, Partition(fname, m.parted, f.fstype)))
        parse(m) ==
            IF ~m.matched THEN ParseError(files, i)
            ELSE add(m, long_format_fstype(m.parted))
    IN  IF i = Len(files) THEN Return(acc) ELSE parse(long_format(fname))

\* files[0] of an empty list raises IndexError
_try_get_partitions_long_format(files) ==
    IF Len(files) = 0 THEN Raise("IndexError", "")
    ELSE IF long_format(files[1]).matched THEN LongLoop(files, 0, <<>>)
    ELSE Return(<<>>)

first_partition_start == "1MiB"

\* mutant: the last partition keeps the end its name gives
ShortEndAsNamed(i, last_index, partition_end) == partition_end

\* partition_end after `if last_index == i: partition_end = "100%"`
ShortEnd(i, last_index, partition_end) ==
    IF last_index = i THEN "100%" ELSE partition_end

\* table_type of the first file
TableType(m) == IF m.msdos THEN "msdos" ELSE "gpt"

\* mutant: every file with the msdos marker declares the table
ShortPartedLabelOnMarker(i, m, partition_start, partition_end) ==
    IF i = 0 \/ m.msdos
    THEN "unit s mklabel " \o TableType(m) \o " mkpart primary " \o m.fstype \o " "
         \o partition_start \o " " \o partition_end \o " set 1 boot on"
    ELSE "mkpart primary " \o m.fstype \o " " \o partition_start \o " " \o partition_end

\* the f-strings that build `parted`
ShortParted(i, m, partition_start, partition_end) ==
    IF i = 0
    THEN "unit s mklabel " \o TableType(m) \o " mkpart primary " \o m.fstype \o " "
         \o partition_start \o " " \o partition_end \o " set 1 boot on"
    ELSE "mkpart primary " \o m.fstype \o " " \o partition_start \o " " \o partition_end

RECURSIVE ShortLoop(_, _, _, _)
\* the loop of _try_get_partitions_short_format, about to handle files[i] with the
\* variable partition_end = prev_end and `partitions` = acc
ShortLoop(files, i, prev_end, acc) ==
    LET fname == files[i + 1]
        add(m, partition_start, partition_end) ==
            ShortLoop(files, i + 1, partition_end,
                      Append(acc, Partition(fname,
                          ShortParted(i, m, partition_start, partition_end), m.fstype)))
        parse(m) ==
            IF ~m.matched THEN ParseError(files, i)
            ELSE add(m, prev_end, ShortEnd(i, Len(files) - 1, m.partition_end))
    IN  IF i = Len(files) THEN Return(acc) ELSE parse(short_format(fname))

\* files[0] of an empty list raises IndexError
_try_get_partitions_short_format(files) ==
    IF Len(files) = 0 THEN Raise("IndexError", "")
    ELSE IF short_format(files[1]).matched
    THEN ShortLoop(files, 0, first_partition_start, <<>>)
    ELSE Return(<<>>)

\* glob.glob(os.path.join(from_dir, "partition[0-9][0-9]?*")) over the names in the
\* directory
Glob(from_dir, names) ==
    {from_dir \o "/" \o n : n \in {n \in names :
        /\ At(n, 1, "partition")
        /\ Ch(n, 10) \in Digits
        /\ Ch(n, 11) \in Digits
        /\ Len(n) >= 12}}

\* partition_filenames = sorted(glob.glob(...))
partition_filenames(from_dir, names) == Sorted(Glob(from_dir, names))

\* mutant: the short format is tried first
ShortOrLong(files) ==
    LET or(a) ==
            IF a.raised # "" \/ a.value # <<>> THEN a
            ELSE _try_get_partitions_long_format(files)
    IN  or(_try_get_partitions_short_format(files))

\* `a or b` on the two builders: b is evaluated only when a returned an empty list
LongOrShort(files) ==
    LET or(a) ==
            IF a.raised # "" \/ a.value # <<>> THEN a
            ELSE _try_get_partitions_short_format(files)
    IN  or(_try_get_partitions_long_format(files))

\* PartitionCollection.from_directory
from_directory(from_dir, names) ==
    LET collection(parts) ==
            IF parts.raised # "" THEN parts
            ELSE IF Len(parts.value) = 0 THEN Raise("PartitionsNotFoundException", "")
            ELSE parts
    IN  collection(LongOrShort(partition_filenames(from_dir, names)))

\* mutant: the long format size is looked for in the last file
SizeLongFileLast(parts) == parts[Len(parts)].filename

\* the file whose name is tried against long_format: self._partitions[0]
SizeLongFile(parts) == parts[1].filename

\* the file whose name is tried against short_format: self._partitions[-1]
SizeShortFile(parts) == parts[Len(parts)].filename

\* PartitionCollection.get_total_size
get_total_size(parts) ==
    LET short(m) ==
            IF m.matched THEN _parse_size(m.partition_end)
            ELSE Raise("PartitionSizeParseException", "")
        long(m) ==
            IF m.matched THEN _parse_size(m.size_all)
            ELSE short(size_short_format(SizeShortFile(parts)))
    IN  long(size_long_format(SizeLongFile(parts)))

-----------------------------------------------------------------------------
(* The inputs: size tokens, and directories of names written after the two *)
(* formats of DESCRIPTION.                                                 *)

MaxNumLen == 3

MaxFiles == 3

RECURSIVE Texts(_, _)
\* the texts of n characters out of chars
Texts(chars, n) ==
    IF n = 0 THEN {""} ELSE {c \o t : c \in chars, t \in Texts(chars, n - 1)}

\* runs of digits and dots, valid decimals or not
Numerals == UNION {Texts({"0", "1", "4", "5", "7", "."}, n) : n \in 1..MaxNumLen}

UnitTexts ==
    DOMAIN units \cup {"S", "B", "KB", "Mb", "GB", "TB", "KiB", "MiB", "GIB", "TiB"}

NotUnitTexts == {"%", "m", "ib", "bytes", " mb", "e5", "-"}

Tokens ==
    {n \o u : n \in Numerals, u \in UnitTexts \cup NotUnitTexts}
    \cup {"1.75GiB", "100KB", "100%", "1.2.3", "1.001kb", "msdos", "--", "MiB", ""}

\* `partitionNN[_msdos]_ENDPOS_TYPE[ .tar | .tar.gz ]`, the underscores or spaces
ShortName(d) ==
    "partition" \o d.index \o (IF d.msdos THEN d.sep \o "msdos" ELSE "")
    \o d.sep \o d.endpos \o d.sep \o d.type \o d.ext

ShortDecls ==
    {[index |-> "01", msdos |-> ms, sep |-> "_", endpos |-> "8MiB",
      type |-> "fat32", ext |-> ""] : ms \in BOOLEAN}
    \cup {[index |-> "02", msdos |-> ms, sep |-> "_", endpos |-> "16GiB",
           type |-> "ext4", ext |-> ""] : ms \in BOOLEAN}
    \cup {[index |-> "03", msdos |-> ms, sep |-> " ", endpos |-> "1.5GB",
           type |-> "linux-swap", ext |-> ".tar.gz"] : ms \in BOOLEAN}
    \cup {[index |-> "04", msdos |-> FALSE, sep |-> "_", endpos |-> "32GiB",
           type |-> "ext2", ext |-> ".tar"]}

\* `partitionNN [-- dd FULLSIZE] -- parted PARTEDCMD[ .tar | .tar.gz ]`; `note` is
\* text between partitionNN and the first ` --`
LongName(d) ==
    "partition" \o d.index \o d.note
    \o (IF d.dd # "" THEN " -- dd " \o d.dd ELSE "")
    \o " -- parted " \o d.parted \o d.ext

LongDecls ==
    {[index |-> "01", note |-> "", dd |-> dd, ext |-> "",
      parted |-> "mklabel msdos mkpart primary fat32 1 8MiB"] : dd \in {"", "256MiB"}}
    \cup {[index |-> "02", note |-> "", dd |-> dd, ext |-> "",
           parted |-> "mkpart primary ext4 8MiB 100%"] : dd \in {"", "1GiB"}}
    \cup {[index |-> "02", note |-> " 5GiB", dd |-> "", ext |-> "",
           parted |-> "mkpart primary ext4 8MiB 100%"]}
    \cup {[index |-> "03", note |-> "", dd |-> "", ext |-> ".tar.gz",
           parted |-> "mkpart primary linux-swap 50% 100%"]}

ShortNames == {ShortName(d) : d \in ShortDecls}

LongNames == {LongName(d) : d \in LongDecls}

\* long format without the `... <fstype> <start> <end>` that the builder looks for
LongNamesNoFstype == {"partition03 -- parted print"}

\* a name that can be read in both formats
BothNames == {"partition01 -- parted mkpart primary ext4 1MiB partition1_9_ext4"}

\* names the glob pattern finds that are in neither format
OtherNames == {"partition02_16GiBext4", "partition03_1GiB_ext2.zip", "partition04.txt"}

\* names the glob pattern does not find
UnlistedNames == {"partition0", "partition05", "notes.txt"}

Names ==
    ShortNames \cup LongNames \cup LongNamesNoFstype \cup BothNames
    \cup OtherNames \cup UnlistedNames

RECURSIVE Subsets(_, _)
\* the subsets of S of at most n elements
Subsets(S, n) ==
    IF n = 0 THEN {{}}
    ELSE Subsets(S, n - 1) \cup {T \cup {x} : T \in Subsets(S, n - 1), x \in S}

rootdir == "ex"

-----------------------------------------------------------------------------
(* The state machines                                                      *)

\* _parse_size has not returned yet
Pending == [raised |-> "(pending)", filename |-> "", value |-> <<>>]

NoException == [type |-> "", filename |-> ""]

\* try_create_image(rootdir, imagefilename) with the defaults of its parameters
Defaults ==
    [program |-> "try_create_image", overwrite |-> FALSE, use_partfs |-> FALSE,
     partitions |-> <<>>, exists |-> FALSE]

\* nothing is mounted, no command has run
NoTools ==
    /\ image = "unchanged"
    /\ devices = 0
    /\ index = 0
    /\ stack = <<>>
    /\ log = <<>>

Idle ==
    /\ listing = {}
    /\ pc = "idle"
    /\ partitions = <<>>
    /\ total_size = <<>>
    /\ exc = NoException
    /\ call = Defaults
    /\ NoTools

\* a call _parse_size(size)
InitSize ==
    /\ size \in Tokens
    /\ size_ret = Pending
    /\ Idle

ParseSize ==
    /\ size_ret = Pending
    /\ size_ret' = _parse_size(size)
    /\ UNCHANGED <<size, listing, pc, partitions, total_size, exc, tools>>

NextSize == ParseSize

SpecSize == InitSize /\ [][NextSize]_vars

\* try_create_image(rootdir, ...) on a directory holding `listing`
Init ==
    /\ size = ""
    /\ size_ret = Pending
    /\ listing \in Subsets(Names, MaxFiles)
    /\ pc = "from_directory"
    /\ partitions = <<>>
    /\ total_size = <<>>
    /\ exc = NoException
    /\ call = Defaults
    /\ NoTools

\* partitions = PartitionCollection.from_directory(rootdir)
FromDirectory ==
    /\ pc = "from_directory"
    /\ \E r \in {from_directory(rootdir, listing)} :
           IF r.raised # ""
           THEN /\ pc' = "raised"
                /\ exc' = [type |-> r.raised, filename |-> r.filename]
                /\ UNCHANGED partitions
           ELSE /\ pc' = "get_total_size"
                /\ partitions' = r.value
                /\ UNCHANGED exc
    /\ UNCHANGED <<size, size_ret, listing, total_size, tools>>

\* total_size = partitions.get_total_size()
GetTotalSize ==
    /\ pc = "get_total_size"
    /\ \E r \in {get_total_size(partitions)} :
           IF r.raised # ""
           THEN /\ pc' = "raised"
                /\ exc' = [type |-> r.raised, filename |-> r.filename]
                /\ UNCHANGED total_size
           ELSE /\ pc' = "make_empty"
                /\ total_size' = r.value
                /\ UNCHANGED exc
    /\ UNCHANGED <<size, size_ret, listing, partitions, tools>>

Next == FromDirectory \/ GetTotalSize

Spec == Init /\ [][Next]_vars

-----------------------------------------------------------------------------
(* try_create_image after the size is known, and try_mount_image: the       *)
(* external commands, the device mount (Partfs or Losetup) and the          *)
(* filesystem mounts (Mount).  A command run with check=True returns or     *)
(* raises CalledProcessError; which of the two is the environment's choice. *)

MaxDevices == 3

MaxPartitions == 2

Outcomes == {"returned", "CalledProcessError"}

Raised(type) == [type |-> type, filename |-> ""]

\* a context manager or a command: its class or program, the partition device it
\* works on (1 for the first of the list, 0 for none) and its mount point
Resource(kind, source, target) == [kind |-> kind, source |-> source, target |-> target]

Event(op, r) == [op |-> op, kind |-> r.kind, source |-> r.source, target |-> r.target]

\* subprocess.run([program, ...])
Ran(events, program, source) == Append(events, Event("run", Resource(program, source, "")))

\* Partfs(...) if use_partfs else Losetup(...)
DeviceMount(use_partfs) == Resource(IF use_partfs THEN "Partfs" ELSE "Losetup", 0, "")

\* the stack of managers once the last one entered has exited
Pop(stk) == SubSeq(stk, 1, Len(stk) - 1)

\* mutant: an exception raised under open managers ends the function at once
PropagateWithoutExit(stk) == "raised"

\* where an exception raised under the managers of stk goes: into their __exit__
Propagate(stk) == IF stk = <<>> THEN "raised" ELSE "unwind"

\* mutant: the image file is overwritten without asking
ImageFileExistsIgnored(exists, overwrite) == FALSE

\* `os.path.exists(imagefile) and not ovewrite`
ImageFileExists(exists, overwrite) == exists /\ ~overwrite

\* imagefile.make_empty(total_size, overwrite): _try_dd
MakeEmpty ==
    /\ pc = "make_empty"
    /\ call.program = "try_create_image"
    /\ IF ImageFileExists(call.exists, call.overwrite)
       THEN /\ pc' = "raised"
            /\ exc' = Raised("ImageFileExistsException")
            /\ UNCHANGED <<image, log>>
       ELSE \E o \in Outcomes :
              /\ log' = Ran(log, "dd", 0)
              /\ IF o = "returned"
                 THEN pc' = "partition" /\ image' = "written" /\ UNCHANGED exc
                 ELSE /\ pc' = "raised"
                      /\ exc' = Raised(o)
                      /\ image' \in {image, "written"}
    /\ UNCHANGED <<size, size_ret, listing, partitions, total_size,
                   call, devices, index, stack>>

\* imagefile.partition(partitions): _try_parted
TryParted ==
    /\ pc = "partition"
    /\ log' = Ran(log, "parted", 0)
    /\ image' = "written"
    /\ \E o \in Outcomes :
         IF o = "returned"
         THEN pc' = "mount" /\ UNCHANGED exc
         ELSE pc' = "raised" /\ exc' = Raised(o)
    /\ UNCHANGED <<size, size_ret, listing, partitions, total_size,
                   call, devices, index, stack>>

\* how many partition devices __enter__ can return: Partfs globs p[0-9]* in its
\* mount directory; Losetup globs p[0-9]* under the path of the loop device, which
\* is a device node and has nothing under it
Exposed(use_partfs) == IF use_partfs THEN 0..MaxDevices ELSE {0}

\* the statement after the device mount is entered
AfterEnter(program) == IF program = "try_create_image" THEN "for" ELSE "for_pindex"

\* ImagefileMounted.__enter__, cm.enter_context(Partfs(...) or Losetup(...)):
\* Partfs() raises when its mount directory is in use, __enter__ raises when partfs
\* or losetup fails, and otherwise returns the partition devices glob finds
EnterDevice ==
    /\ pc = "mount"
    /\ \/ /\ call.use_partfs
          /\ pc' = "raised"
          /\ exc' = Raised("PartfsMountInUseException")
          /\ UNCHANGED <<devices, stack, log>>
       \/ /\ pc' = "raised"
          /\ exc' = Raised("CalledProcessError")
          /\ UNCHANGED <<devices, stack, log>>
       \/ /\ devices' \in Exposed(call.use_partfs)
          /\ stack' = <<DeviceMount(call.use_partfs)>>
          /\ log' = Append(log, Event("enter", DeviceMount(call.use_partfs)))
          /\ pc' = AfterEnter(call.program)
          /\ UNCHANGED exc
    /\ index' = 0
    /\ UNCHANGED <<size, size_ret, listing, partitions, total_size, call, image>>

\* len(list(zip(partitions, partition_dirs)))
ZipLen(parts, n) == IF Len(parts) < n THEN Len(parts) ELSE n

\* `for partition, partition_dir in partition_dirs`: the next turn, or the end of
\* the `with` block
For ==
    /\ pc = "for"
    /\ pc' = IF index < ZipLen(partitions, devices) THEN "mkfs" ELSE "unwind"
    /\ UNCHANGED <<size, size_ret, listing, partitions, total_size, exc, tools>>

\* the keys of cmds in _try_mkfs
cmds == {"fat32", "ext4", "ext2", "linux-swap"}

\* Partition.is_mountable
is_mountable(partition) == partition.fstype # "linux-swap"

\* _try_mkfs(partition_dir, partition.fstype); if partition.is_mountable(): ...
TryMkfs ==
    /\ pc = "mkfs"
    /\ IF partitions[index + 1].fstype \notin cmds
       THEN /\ pc' = Propagate(stack)
            /\ exc' = Raised("UnknownFilesystemException")
            /\ UNCHANGED <<index, log>>
       ELSE /\ log' = Ran(log, "mkfs", index + 1)
            /\ \E o \in Outcomes :
                 IF o # "returned"
                 THEN pc' = Propagate(stack) /\ exc' = Raised(o) /\ UNCHANGED index
                 ELSE IF is_mountable(partitions[index + 1])
                 THEN pc' = "mount_fs" /\ UNCHANGED <<exc, index>>
                 ELSE pc' = "for" /\ index' = index + 1 /\ UNCHANGED exc
    /\ UNCHANGED <<size, size_ret, listing, partitions, total_size,
                   call, image, devices, stack>>

\* try_create_image's mount_root_dir, try_mount_image's mount_root_dir
mount_root_dir(program) == IF program = "try_create_image" THEN "/mnt/_temp_fs" ELSE "/mnt"

\* `with Mount(partition_dir, mount_root_dir) as mntdir`: Mount.__enter__
EnterMount ==
    /\ pc = "mount_fs"
    /\ \E o \in Outcomes :
         IF o = "returned"
         THEN \E m \in {Resource("Mount", index + 1, mount_root_dir(call.program))} :
                /\ stack' = Append(stack, m)
                /\ log' = Append(log, Event("enter", m))
                /\ pc' = "copy"
                /\ UNCHANGED exc
         ELSE /\ pc' = Propagate(stack)
              /\ exc' = Raised(o)
              /\ UNCHANGED <<stack, log>>
    /\ UNCHANGED <<size, size_ret, listing, partitions, total_size,
                   call, image, devices, index>>

\* the command Partition.try_copy_to runs, "" when it runs none
CopyCommand(filename, isdir) ==
    IF isdir THEN "cp"
    ELSE IF EndsWith(filename, ".tar") THEN "tar -xf"
    ELSE IF EndsWith(filename, ".tar.gz") THEN "tar -xzf"
    ELSE ""

\* partition.try_copy_to(mntdir); os.path.isdir(filename) is the environment's
TryCopyTo ==
    /\ pc = "copy"
    /\ \E isdir \in BOOLEAN, o \in Outcomes :
         \E command \in {CopyCommand(partitions[index + 1].filename, isdir)} :
           IF command = ""
           THEN pc' = "umount" /\ UNCHANGED <<exc, log>>
           ELSE /\ log' = Ran(log, command, index + 1)
                /\ IF o = "returned"
                   THEN pc' = "umount" /\ UNCHANGED exc
                   ELSE pc' = Propagate(stack) /\ exc' = Raised(o)
    /\ UNCHANGED <<size, size_ret, listing, partitions, total_size,
                   call, image, devices, index, stack>>

\* the end of `with Mount(...)`: Mount.__exit__, then the next turn of the loop
ExitMount ==
    /\ pc = "umount"
    /\ log' = Append(log, Event("exit", stack[Len(stack)]))
    /\ stack' = Pop(stack)
    /\ \E o \in Outcomes :
         IF o = "returned"
         THEN pc' = "for" /\ index' = index + 1 /\ UNCHANGED exc
         ELSE pc' = Propagate(stack') /\ exc' = Raised(o) /\ UNCHANGED index
    /\ UNCHANGED <<size, size_ret, listing, partitions, total_size,
                   call, image, devices>>

\* the __exit__ of the innermost open manager, at the end of the outer `with` block
\* or of the ExitStack, or with an exception on its way out; an exception __exit__
\* raises takes the place of the one on its way
Exit ==
    /\ pc = "unwind"
    /\ stack # <<>>
    /\ log' = Append(log, Event("exit", stack[Len(stack)]))
    /\ stack' = Pop(stack)
    /\ \E o \in Outcomes : exc' = IF o = "returned" THEN exc ELSE Raised(o)
    /\ pc' = IF stack' # <<>> THEN "unwind"
             ELSE IF exc'.type = "" THEN "done" ELSE "raised"
    /\ UNCHANGED <<size, size_ret, listing, partitions, total_size,
                   call, image, devices, index>>

\* `if len(partitions) == 0: partitions = range(0, len(partfs))`
Requested(requested, n) ==
    IF Len(requested) = 0 THEN [k \in 1..n |-> k - 1] ELSE requested

\* list[k] of a list of n items: the position from 1 of the item, 0 for IndexError
Subscript(n, k) ==
    IF 0 <= k /\ k < n THEN k + 1
    ELSE IF -n <= k /\ k < 0 THEN n + k + 1
    ELSE 0

\* "{}/p{}".format(mount_root_dir, pindex)
mntdir(root, pindex) == root \o "/p" \o ToString(pindex)

\* one turn of `for pindex in partitions`, or the yield after the last
ForPindex ==
    /\ pc = "for_pindex"
    /\ \E ps \in {Requested(call.partitions, devices)} :
         IF index = Len(ps)
         THEN pc' = "yield" /\ UNCHANGED <<exc, index, stack, log>>
         ELSE \E part \in {Subscript(devices, ps[index + 1] - 1)} :
                IF part = 0
                THEN pc' = "for_pindex" /\ index' = index + 1 /\ UNCHANGED <<exc, stack, log>>
                ELSE \E o \in Outcomes :
                       IF o = "returned"
                       THEN \E m \in {Resource("Mount", part,
                                        mntdir(mount_root_dir(call.program), ps[index + 1]))} :
                              /\ stack' = Append(stack, m)
                              /\ log' = Append(log, Event("enter", m))
                              /\ pc' = "for_pindex"
                              /\ index' = index + 1
                              /\ UNCHANGED exc
                       ELSE /\ pc' = Propagate(stack)
                            /\ exc' = Raised(o)
                            /\ UNCHANGED <<index, stack, log>>
    /\ UNCHANGED <<size, size_ret, listing, partitions, total_size,
                   call, image, devices>>

\* the body of `with try_mount_image(...)`: the user's command
Yield ==
    /\ pc = "yield"
    /\ log' = Ran(log, "cmd", 0)
    /\ \E o \in Outcomes : exc' = IF o = "returned" THEN exc ELSE Raised(o)
    /\ pc' = "unwind"
    /\ UNCHANGED <<size, size_ret, listing, partitions, total_size,
                   call, image, devices, index, stack>>

\* a short format name with a filesystem type _try_mkfs does not know
UnknownFsNames == {"partition02_16GiB_ntfs"}

\* the partitions directories try_create_image is run on
Directories ==
    {{},
     {"partition01_8MiB_fat32", "partition02_16GiBext4"},
     {"partition01_msdos_8MiB_fat32"},
     {"partition01_8MiB_fat32"},
     {"partition01_8MiB_fat32", "partition02_16GiB_ext4"},
     {"partition01_8MiB_fat32", "partition02_16GiB_ext4",
      "partition03 1.5GB linux-swap.tar.gz"},
     {"partition01_8MiB_fat32", "partition03 1.5GB linux-swap.tar.gz",
      "partition04_32GiB_ext2.tar"},
     {"partition01 -- dd 256MiB -- parted mklabel msdos mkpart primary fat32 1 8MiB",
      "partition02 -- parted mkpart primary ext4 8MiB 100%"},
     {"partition01_8MiB_fat32", "partition02_16GiB_ntfs"}}

\* try_create_image(rootdir, imagefilename, overwrite, use_partfs)
InitCreate ==
    /\ size = ""
    /\ size_ret = Pending
    /\ listing \in Directories
    /\ pc = "from_directory"
    /\ partitions = <<>>
    /\ total_size = <<>>
    /\ exc = NoException
    /\ call \in [program : {"try_create_image"}, overwrite : BOOLEAN,
                 use_partfs : BOOLEAN, partitions : {<<>>}, exists : BOOLEAN]
    /\ NoTools

RECURSIVE Lists(_, _)
\* the lists of at most n items of S
Lists(S, n) ==
    IF n = 0 THEN {<<>>}
    ELSE Lists(S, n - 1) \cup {Append(l, x) : l \in Lists(S, n - 1), x \in S}

\* try_mount_image(imagefilename, partitions, use_partfs=use_partfs)
InitMount ==
    /\ size = ""
    /\ size_ret = Pending
    /\ listing = {}
    /\ pc = "mount"
    /\ partitions = <<>>
    /\ total_size = <<>>
    /\ exc = NoException
    /\ call \in [program : {"try_mount_image"}, overwrite : {FALSE},
                 use_partfs : BOOLEAN,
                 partitions : Lists((-1)..(MaxDevices + 1), MaxPartitions),
                 exists : {TRUE}]
    /\ NoTools

InitImage == InitCreate \/ InitMount

NextImage ==
    \/ FromDirectory
    \/ GetTotalSize
    \/ MakeEmpty
    \/ TryParted
    \/ EnterDevice
    \/ For
    \/ TryMkfs
    \/ EnterMount
    \/ TryCopyTo
    \/ ExitMount
    \/ Exit
    \/ ForPindex
    \/ Yield

SpecImage == InitImage /\ [][NextImage]_vars

-----------------------------------------------------------------------------
(* What the claims speak of                                                *)

\* the sorted candidate filenames of the directory
Files == partition_filenames(rootdir, listing)

InDir(names) == {rootdir \o "/" \o n : n \in names}

ShortDeclOf(f) == CHOOSE d \in ShortDecls : f \in InDir({ShortName(d)})

LongDeclOf(f) == CHOOSE d \in LongDecls : f \in InDir({LongName(d)})

\* every candidate is a short format name
AllShort == Files # <<>> /\ \A i \in 1..Len(Files) : Files[i] \in InDir(ShortNames)

\* from_directory has returned a collection
Built == partitions # <<>>

\* from_directory has raised
NotBuilt(type) == pc = "raised" /\ partitions = <<>> /\ exc.type = type

\* get_total_size has returned or raised
SizeTried == Built /\ pc # "get_total_size"

RECURSIVE Words(_)
\* s.split()
Words(s) ==
    IF s = "" THEN <<>>
    ELSE IF Ch(s, 1) = " " THEN Words(From(s, 2))
    ELSE LET n == IF \E i \in 1..Len(s) : Ch(s, i) = " "
                  THEN (CHOOSE i \in 1..Len(s) :
                          Ch(s, i) = " " /\ \A j \in 1..(i - 1) : Ch(s, j) # " ")
                  ELSE Len(s) + 1
         IN  <<SubSeq(s, 1, n - 1)>> \o Words(From(s, n))

\* the words after `mkpart primary <fstype>` of a script fragment: start and end
MkpartArg(parted, k) ==
    LET w == Words(parted)
        j == CHOOSE j \in 1..Len(w) : w[j] = "mkpart"
    IN  w[j + 2 + k]

StartOf(p) == MkpartArg(p.parted, 1)

EndOf(p) == MkpartArg(p.parted, 2)

\* a text of digits with at most one dot and at least one digit
IsDecimal(t) ==
    /\ \A i \in 1..Len(t) : Ch(t, i) \in Digits \cup {"."}
    /\ DotCount(t) <= 1
    /\ Len(t) > DotCount(t)

UnitNames == {"", "s", "b", "kb", "mb", "gb", "tb", "kib", "mib", "gib", "tib"}

\* the ways to read a token as <number><unit>: the lengths of the number
Readings(t) ==
    {k \in 1..Len(t) : IsDecimal(SubSeq(t, 1, k)) /\ Lower(From(t, k + 1)) \in UnitNames}

\* the multiplier the claim gives for a unit
Multiplier(u) ==
    CASE u = ""    -> BigPow(1000, 2)
      [] u = "s"   -> Big(512)
      [] u = "b"   -> Big(1)
      [] u \in {"kb", "mb", "gb", "tb"} ->
           BigPow(1000, CHOOSE n \in 1..4 : <<"kb", "mb", "gb", "tb">>[n] = u)
      [] u \in {"kib", "mib", "gib", "tib"} ->
           BigPow(1024, CHOOSE n \in 1..4 : <<"kib", "mib", "gib", "tib">>[n] = u)

\* floor(number * multiplier) in exact arithmetic, the number being t[:k]
Truncated(t, k) ==
    DivTen(Mul(DigitsValue(SubSeq(t, 1, k), <<>>), Multiplier(Lower(From(t, k + 1)))),
           FractionDigits(SubSeq(t, 1, k)))

-----------------------------------------------------------------------------
(* The claims                                                              *)

\* C1: for every token <number><unit> with a decimal number and one of the eleven
\* units (in any case), _parse_size returns number x multiplier truncated to an
\* integer.
C1_TruncatedProduct ==
    (size_ret # Pending /\ Readings(size) # {}) =>
        \A k \in Readings(size) : size_ret = Return(Truncated(size, k))

\* C2: for every token that is not a well-formed <number><unit>, _parse_size raises
\* PartitionSizeParseException: it returns no value and no other exception escapes.
C2_MalformedRaisesSizeError ==
    (size_ret # Pending /\ Readings(size) = {}) =>
        size_ret = Raise("PartitionSizeParseException", "")

\* C3: in short format the first descriptor starts at 1MiB, every later one starts
\* at the end offset the previous file name declares, every descriptor but the last
\* ends at the end offset its own file name declares, and the last ends at 100%.
C3_ShortOffsets ==
    (pc # "from_directory" /\ AllShort) =>
        /\ Len(partitions) = Len(Files)
        /\ \A i \in 1..Len(Files) :
            /\ StartOf(partitions[i]) =
                 IF i = 1 THEN "1MiB" ELSE ShortDeclOf(Files[i - 1]).endpos
            /\ EndOf(partitions[i]) =
                 IF i = Len(Files) THEN "100%" ELSE ShortDeclOf(Files[i]).endpos

\* C3 witness: three short format files, the middle one between the declared ends
\* and the last one up to 100%.
C3_Witness ==
    /\ AllShort
    /\ Len(partitions) = 3
    /\ partitions[1].filename = "ex/partition01_8MiB_fat32"
    /\ partitions[2].parted = "mkpart primary ext4 8MiB 16GiB"
    /\ partitions[3].parted = "mkpart primary linux-swap 16GiB 100%"

\* C4: in short format the first descriptor alone declares the table and the boot
\* flag, msdos exactly when the first file name has the msdos marker and gpt
\* otherwise; every later fragment is `mkpart primary <fstype> <start> <end>`, with
\* or without the marker in its name; each fstype is the one of the file's own name.
C4_ShortTableOnce ==
    (pc # "from_directory" /\ AllShort) =>
        /\ Len(partitions) = Len(Files)
        /\ \A i \in 1..Len(Files) :
            LET d == ShortDeclOf(Files[i])
                p == partitions[i]
            IN  /\ p.fstype = d.type
                /\ p.parted =
                     IF i = 1
                     THEN "unit s mklabel " \o (IF d.msdos THEN "msdos" ELSE "gpt")
                          \o " mkpart primary " \o d.type \o " " \o StartOf(p) \o " "
                          \o EndOf(p) \o " set 1 boot on"
                     ELSE "mkpart primary " \o d.type \o " " \o StartOf(p) \o " "
                          \o EndOf(p)

\* C4 witness: both files carry the msdos marker, only the first declares the table.
C4_Witness ==
    /\ Files = <<"ex/partition01_msdos_8MiB_fat32", "ex/partition02_msdos_16GiB_ext4">>
    /\ Len(partitions) = 2
    /\ partitions[1].parted
         = "unit s mklabel msdos mkpart primary fat32 1MiB 8MiB set 1 boot on"
    /\ partitions[2].parted = "mkpart primary ext4 8MiB 100%"

\* C5: for every file set the short format builder accepts, the last file with the
\* msdos marker or not, get_total_size returns the byte value of the end offset the
\* last file name declares.
C5_ShortTotalIsLastEnd ==
    (SizeTried /\ AllShort) =>
        /\ pc = "make_empty"
        /\ total_size = _parse_size(ShortDeclOf(Files[Len(Files)]).endpos).value

\* C6: when the first file name of a long format collection holds `-- dd <size>`,
\* get_total_size returns the byte value of that size, whatever the other names hold.
C6_LongTotalFromFirst ==
    (SizeTried /\ Files[1] \in InDir(LongNames) /\ LongDeclOf(Files[1]).dd # "") =>
        /\ pc = "make_empty"
        /\ total_size = _parse_size(LongDeclOf(Files[1]).dd).value

\* C6 witness: the first file says 256MiB, a later one 1GiB, and the size is 256MiB.
C6_Witness ==
    /\ Len(partitions) >= 2
    /\ Files[1] \in InDir(LongNames)
    /\ LongDeclOf(Files[1]).dd = "256MiB"
    /\ \E i \in 2..Len(Files) :
         Files[i] \in InDir(LongNames) /\ LongDeclOf(Files[i]).dd = "1GiB"
    /\ pc = "make_empty"
    /\ total_size = Big(268435456)

\* C7: when the first file name of a long format collection holds no `-- dd <size>`,
\* get_total_size raises PartitionSizeParseException and never returns a size taken
\* from another file or token.
C7_LongWithoutDdRaises ==
    (SizeTried /\ Files[1] \in InDir(LongNames) /\ LongDeclOf(Files[1]).dd = "") =>
        /\ pc = "raised"
        /\ exc.type = "PartitionSizeParseException"

\* a descriptor built by the long format rule: the fragment is the text of its own
\* file name after `-- parted `
LongBuilt(f, p) == p.filename = f /\ EndsWith(f, "-- parted " \o p.parted)

\* a descriptor built by the short format rule: the fragment is synthesised
ShortBuilt(f, p) ==
    /\ p.filename = f
    /\ ~EndsWith(f, "-- parted " \o p.parted)
    /\ \/ At(p.parted, 1, "mkpart primary " \o p.fstype \o " ")
       \/ At(p.parted, 1, "unit s mklabel ")

\* C8: the first file of a non-empty sorted file set decides the format, long before
\* short: a returned collection is built by the long rule throughout when the first
\* file is in long format, by the short rule throughout when it is in short format
\* only, and otherwise from_directory raises PartitionsNotFoundException.
C8_FirstFileDecides ==
    (pc # "from_directory" /\ Files # <<>>) =>
        IF Files[1] \in InDir(LongNames \cup LongNamesNoFstype \cup BothNames)
        THEN \/ NotBuilt("PartitionParseException")
             \/ /\ Len(partitions) = Len(Files)
                /\ \A i \in 1..Len(Files) : LongBuilt(Files[i], partitions[i])
        ELSE IF Files[1] \in InDir(ShortNames)
        THEN \/ NotBuilt("PartitionParseException")
             \/ /\ Len(partitions) = Len(Files)
                /\ \A i \in 1..Len(Files) : ShortBuilt(Files[i], partitions[i])
        ELSE NotBuilt("PartitionsNotFoundException")

\* C8 witness: the first file can be read in both formats and the collection of two
\* is built by the long rule.
C8_Witness ==
    /\ Len(partitions) = 2
    /\ Files[1] \in InDir(BothNames)
    /\ \A i \in 1..2 : LongBuilt(Files[i], partitions[i])

\* the files a format's patterns accept
Accepted(format) ==
    IF format = "long" THEN InDir(LongNames \cup BothNames)
    ELSE InDir(ShortNames \cup BothNames)

\* the format the first file selects
Selected ==
    IF Files[1] \in InDir(LongNames \cup LongNamesNoFstype \cup BothNames) THEN "long"
    ELSE IF Files[1] \in InDir(ShortNames) THEN "short"
    ELSE "none"

\* C9: once the first file has selected a format, the first file in sorted order
\* that fails the format's pattern (or the filesystem-type sub-pattern) makes
\* from_directory raise PartitionParseException with exactly that file's name, and
\* no collection is returned.
C9_FirstFailingFileNamed ==
    (pc # "from_directory" /\ Files # <<>> /\ Selected # "none") =>
        LET failing == {i \in 1..Len(Files) : Files[i] \notin Accepted(Selected)}
        IN  failing # {} =>
              /\ pc = "raised"
              /\ partitions = <<>>
              /\ exc = [type |-> "PartitionParseException",
                        filename |-> Files[CHOOSE i \in failing :
                                             \A j \in failing : i <= j]]

\* C9 witness: long format selected, the second file fails the pattern and the third
\* the filesystem-type sub-pattern; the exception names the second.
C9_Witness ==
    /\ Files = <<"ex/partition01 -- dd 256MiB -- parted mklabel msdos mkpart primary fat32 1 8MiB",
                 "ex/partition02_16GiB_ext4",
                 "ex/partition03 -- parted print">>
    /\ pc = "raised"
    /\ exc.filename = "ex/partition02_16GiB_ext4"

\* C10: when the directory yields no candidate file names, from_directory raises
\* PartitionsNotFoundException and nothing else.
C10_EmptyRaisesNotFound ==
    (pc # "from_directory" /\ Files = <<>>) => NotBuilt("PartitionsNotFoundException")

\* C11: for every long format file name the descriptor's script fragment is the text
\* after `-- parted ` with a trailing .tar or .tar.gz removed, so a directory, a
\* .tar and a .tar.gz source with the same parted text give the same fragment.
C11_LongFragmentWithoutSuffix ==
    (Built /\ \A i \in 1..Len(Files) : Files[i] \in InDir(LongNames)) =>
        /\ Len(partitions) = Len(Files)
        /\ \A i \in 1..Len(Files) : partitions[i].parted = LongDeclOf(Files[i]).parted

\* the mount an event of the log is about
Of(e) == Resource(e.kind, e.source, e.target)

RECURSIVE HeldAfter(_, _)
\* the mounts entered and not exited after `events`, the latest last, `held` being
\* those before
HeldAfter(events, held) ==
    IF events = <<>> THEN held
    ELSE IF Head(events).op = "enter"
    THEN HeldAfter(Tail(events), Append(held, Of(Head(events))))
    ELSE IF Head(events).op = "exit"
    THEN HeldAfter(Tail(events), SubSeq(held, 1, Len(held) - 1))
    ELSE HeldAfter(Tail(events), held)

\* every exit in the log is the exit of the latest mount entered and not yet exited
ReverseOrder(events) ==
    \A j \in 1..Len(events) :
        events[j].op = "exit" =>
            LET held == HeldAfter(SubSeq(events, 1, j - 1), <<>>)
            IN  held # <<>> /\ held[Len(held)] = Of(events[j])

\* C12: on every exit path of try_create_image and try_mount_image, each device
\* mount and filesystem mount that was entered is exited exactly once, in reverse
\* order of entry: a filesystem unmount comes before the device release, and in
\* try_create_image a partition's filesystem mount is exited before the next
\* partition is formatted or mounted.
C12_ReleasedInReverseOrder ==
    /\ ReverseOrder(log)
    /\ pc \in {"done", "raised"} => HeldAfter(log, <<>>) = <<>>
    /\ call.program = "try_create_image" =>
         \A j \in 1..Len(log) :
            (log[j].kind = "mkfs" \/ (log[j].op = "enter" /\ log[j].kind = "Mount")) =>
                HeldAfter(SubSeq(log, 1, j - 1), <<>>) = <<DeviceMount(call.use_partfs)>>

\* C12 witness: try_create_image ends with an exception after the copy into the
\* second partition failed; the second mount and then the device were released.
C12_Witness ==
    /\ call.program = "try_create_image"
    /\ pc = "raised"
    /\ exc.type = "CalledProcessError"
    /\ Len(log) >= 4
    /\ log[Len(log) - 2] = Event("run", Resource("cp", 2, ""))
    /\ log[Len(log) - 1] = Event("exit", Resource("Mount", 2, "/mnt/_temp_fs"))
    /\ log[Len(log)] = Event("exit", DeviceMount(call.use_partfs))

\* no command has run and the image file is as it was
Untouched == log = <<>> /\ image = "unchanged"

\* the exceptions of table construction and of size resolution
ParseFailures ==
    {"PartitionParseException", "PartitionsNotFoundException",
     "PartitionSizeParseException", "IndexError", "ValueError"}

\* C13: try_create_image runs its commands on the image file (dd first, then
\* parted, then the mounts, mkfs and copies) only after table construction and size
\* resolution have both succeeded and only if the image file does not exist or
\* overwrite is set; when parsing or size resolution fails, or the file exists
\* without overwrite (ImageFileExistsException), no command has run and the image
\* file is unchanged.
C13_ImageTouchedOnlyAfterChecks ==
    call.program = "try_create_image" =>
        /\ pc \in {"from_directory", "get_total_size", "make_empty"} => Untouched
        /\ (pc = "raised" /\ exc.type \in ParseFailures \cup {"ImageFileExistsException"})
             => Untouched
        /\ (call.exists /\ ~call.overwrite) => Untouched
        /\ ~Untouched =>
             /\ Built
             /\ log[1] = Event("run", Resource("dd", 0, ""))
             /\ Len(log) >= 2 => log[2] = Event("run", Resource("parted", 0, ""))

\* C13 witness: the table is built and the size resolved, the image file exists and
\* overwrite is not set: ImageFileExistsException and nothing has run.
C13_Witness ==
    /\ call.program = "try_create_image"
    /\ call.exists /\ ~call.overwrite
    /\ Built
    /\ pc = "raised"
    /\ exc.type = "ImageFileExistsException"
    /\ Untouched

\* the filesystem mounts try_mount_image has entered, in order
Mounted == SelectSeq(log, LAMBDA e : e.op = "enter" /\ e.kind = "Mount")

\* C14: try_mount_image counts partitions from 1: every mount it performs is of
\* the p-th exposed device at <mount_root_dir>/p<p> for some p in 1..n, n being the
\* number of exposed devices; a requested number without a device (p < 1 or
\* p > n) mounts nothing; and with no partition list each of the n devices is
\* mounted exactly once, device i at p<i>.
C14_OneBasedMounts ==
    call.program = "try_mount_image" =>
        /\ \A j \in 1..Len(Mounted) :
             \E p \in 1..devices :
                Mounted[j] = Event("enter", Resource("Mount", p, "/mnt/p" \o ToString(p)))
        /\ (call.partitions = <<>> /\ pc = "yield") =>
             /\ Len(Mounted) = devices
             /\ \A i \in 1..devices :
                  \E j \in 1..devices :
                     Mounted[j] = Event("enter", Resource("Mount", i, "/mnt/p" \o ToString(i)))

====
